---------------------------- MODULE Spec2Model ----------------------------
(***************************************************************************)
(* Model of the parallel directory scanner of src-tauri/src/lib.rs:        *)
(* scan_directory_impl and the recursive scan_directory_parallel, whose    *)
(* child invocations run concurrently (rayon par_iter) and share four      *)
(* mutex-guarded values: total_files, total_size, error_count and          *)
(* last_progress.                                                          *)
(*                                                                         *)
(* A filesystem is a tree of nodes 1..n (node 1 is the scanned root path,  *)
(* parent[m] < m, a directory enumerates its entries by increasing node    *)
(* number).  Every invocation of scan_directory_parallel is the task of    *)
(* the node it was called on; pc[n] is the position of that invocation.    *)
(***************************************************************************)
EXTENDS Naturals, Sequences, FiniteSets

(* ---- bounds of the model ---- *)
MaxNodes == 4      \* nodes of the filesystem tree, root included
WideNodes == 5     \* the same, in the specification with wide directories
MaxSize == 1       \* largest file length
NumWorkers == 2    \* threads of the rayon pool
FileCeiling == 1   \* a global file-count ceiling (the source sets none)
LoopNodes == 3     \* nodes of the trees that may hold a symlink loop

(* ---- program constants, scaled down (source value in the comment) ---- *)
ENTRY_CAP == 3       \* .take(500): entries read per directory
RETAINED_MAX == 2    \* .truncate(50): children kept per directory node
THRESHOLD == 1       \* elapsed().as_millis() > 50: one tick stands for 50 ms

VARIABLES
    parent,        \* the tree: parent[n], 0 for the root
    attr,          \* attr[n] = [kind, size]: what stat/read_dir answer for n
    phase,         \* scan_directory_impl: "idle", "scanning", "returned"
    outcome,       \* what scan_directory returned: "none", "ok", "err"
    summary,       \* the ScanResult's counters, once returned Ok
    pc,            \* position of the invocation on each node
    ret,           \* its return value: "none", "ok" (a FileInfo), "err"
    nsize,         \* FileInfo.size of the node it returned
    isdir,         \* FileInfo.is_dir
    kids,          \* FileInfo.children, as the sequence of the children's nodes
    built,         \* the local `children` vector before sort and truncate
    total_files,   \* Mutex<usize>
    total_size,    \* Mutex<u64>
    error_count,   \* Mutex<usize>
    elapsed,       \* last_progress.elapsed() when the clock was last read, in
                   \* ticks, saturating above THRESHOLD
    holder,        \* holder[m]: the node whose invocation holds mutex m, or 0
    reg,           \* the value an invocation loaded from the counter it updates
    progress,      \* the ScanProgress under construction in each invocation
    events         \* the scan-progress events emitted so far

vars == <<parent, attr, phase, outcome, summary, pc, ret, nsize, isdir, kids,
          built, total_files, total_size, error_count, elapsed, holder, reg,
          progress, events>>

fsvars == <<parent, attr>>
topvars == <<phase, outcome, summary>>
nodevars == <<ret, nsize, isdir, kids, built>>
counters == <<total_files, total_size, error_count>>
progvars == <<elapsed, progress, events>>
lockvars == <<holder, reg>>

Locks == {"total_files", "total_size", "error_count", "last_progress"}

Root == 1
Nodes == 1..Len(parent)

Min(a, b) == IF a < b THEN a ELSE b

(* ---- the filesystem ---- *)

\* What an entry can be: a regular file of some length, a listable directory,
\* an entry whose metadata cannot be read, an entry that is not a file and
\* whose read_dir fails.
Attrs ==
    {[kind |-> "file", size |-> s] : s \in 0..MaxSize}
    \cup {[kind |-> k, size |-> 0] : k \in {"dir", "nostat", "nolist"}}

Trees(n) ==
    {p \in [1..n -> 0..(n - 1)] :
        /\ p[1] = 0
        /\ \A m \in 2..n : p[m] >= 1 /\ p[m] < m}

HasEntries(p, n) == \E m \in DOMAIN p : p[m] = n

\* Only a listable directory has entries.
AttrsOf(p) ==
    {a \in [DOMAIN p -> Attrs] :
        \A n \in DOMAIN p : HasEntries(p, n) => a[n].kind = "dir"}

\* fs::read_dir(path): the entries of n in enumeration order.
Entries(n) ==
    SelectSeq([m \in 1..Len(parent) |-> m], LAMBDA m : parent[m] = n)

\* fs::metadata(path) is Ok
StatOk(n) == attr[n].kind # "nostat"

\* metadata.is_file()
IsFile(n) == attr[n].kind = "file"

\* fs::read_dir(path) is Ok
ListOk(n) == attr[n].kind = "dir"

\* Mutant of Exists: the existence test is missing.
Exists_Unchecked(n) == TRUE

\* root_path.exists()
Exists(n) == attr[n].kind # "nostat"

(* ---- the pure pieces of scan_directory_parallel ---- *)

\* Mutant of TakeEntries: no cap on the entries read.
TakeEntries_All(es) == es

\* .take(500)
TakeEntries(es) == SubSeq(es, 1, Min(Len(es), ENTRY_CAP))

\* Mutant of Collect: the children that returned Err are kept.
Collect_All(es) == es

\* .filter_map(|child_path| scan_directory_parallel(..).ok()).collect():
\* the children that returned Ok, in the order of the entries.
Collect(es) == SelectSeq(es, LAMBDA m : ret[m] = "ok")

RECURSIVE InsertBySize(_, _)
\* One step of the stable sort by b.size.cmp(&a.size): c goes after every
\* element that is not smaller than it.
InsertBySize(c, sorted) ==
    IF sorted = <<>> THEN <<c>>
    ELSE IF nsize[Head(sorted)] >= nsize[c]
         THEN <<Head(sorted)>> \o InsertBySize(c, Tail(sorted))
         ELSE <<c>> \o sorted

\* Mutant of SortBySize: the children are left in entry order.
SortBySize_Omitted(cs) == cs

RECURSIVE SortBySize(_)
\* sorted_children.sort_by(|a, b| b.size.cmp(&a.size)): stable, largest first
SortBySize(cs) ==
    IF cs = <<>> THEN <<>>
    ELSE InsertBySize(cs[Len(cs)], SortBySize(SubSeq(cs, 1, Len(cs) - 1)))

\* sorted_children.truncate(50)
Truncate(cs) == SubSeq(cs, 1, Min(Len(cs), RETAINED_MAX))

RECURSIVE SumFirst(_, _)
SumFirst(cs, k) ==
    IF cs = <<>> \/ k = 0 THEN 0
    ELSE nsize[Head(cs)] + SumFirst(Tail(cs), k - 1)

\* Mutant of SumSizes: the sizes are summed after the sort and the truncation.
SumSizes_AfterTruncate(cs) == SumFirst(SortBySize(cs), RETAINED_MAX)

RECURSIVE SumSizes_FilesOnly(_)
\* Mutant of SumSizes: only the children that are files are summed.
SumSizes_FilesOnly(cs) ==
    IF cs = <<>> THEN 0
    ELSE (IF isdir[Head(cs)] THEN 0 ELSE nsize[Head(cs)])
         + SumSizes_FilesOnly(Tail(cs))

\* Mutant of SumSizes: the size is read from the shared byte total, which
\* depends on how far the other invocations have got.
SumSizes_FromCounter(cs) == total_size

RECURSIVE SumSizes(_)
\* children.iter().map(|child| child.size).sum()
SumSizes(cs) ==
    IF cs = <<>> THEN 0 ELSE nsize[Head(cs)] + SumSizes(Tail(cs))

\* Mutant of JoinResult: a child's Err is propagated (`?` in place of .ok()).
JoinResult_Strict(es) ==
    IF \E i \in 1..Len(es) : ret[es[i]] = "err" THEN "err" ELSE "ok"

\* lines 147-149 and 160: the children's Errs are dropped by filter_map and
\* the directory invocation returns Ok whatever its children returned.
JoinResult(es) == "ok"

\* Mutant of ProgressDue: an event is due after every file.
ProgressDue_Always(e) == TRUE

\* last_update.elapsed().as_millis() > 50
ProgressDue(e) == e > THRESHOLD

\* *total_files.lock().unwrap() += 1
RecordFile(c) == c + 1

\* Mutant of RecordSize: the size is assigned, not added.
RecordSize_Assigned(t, size) == size

\* *total_size.lock().unwrap() += size
RecordSize(t, size) == t + size

\* *error_count.lock().unwrap() += 1
RecordError(e) == e + 1

\* Mutant of LockFree: the counters are not guarded.
LockFree_Unguarded(m) == TRUE

\* Mutex::lock() returns only when no other thread holds the mutex.
LockFree(m) == holder[m] = 0

\* The MutexGuard that lock() returns to the invocation on n.
Acquire(h, m, n) == [h EXCEPT ![m] = n]

\* Mutant of Release: the guard is leaked and the mutex stays locked.
Release_Leaked(h, m) == h

\* The MutexGuard is dropped.
Release(h, m) == [h EXCEPT ![m] = 0]

(* ---- initial state ---- *)

\* The state before scan_directory is called, on a tree of at most k nodes.
InitOn(k) ==
    /\ parent \in UNION {Trees(n) : n \in 1..k}
    /\ attr \in AttrsOf(parent)
    /\ phase = "idle"
    /\ outcome = "none"
    /\ summary = [total_size |-> 0, file_count |-> 0, error_count |-> 0]
    /\ pc = [n \in DOMAIN parent |-> "idle"]
    /\ ret = [n \in DOMAIN parent |-> "none"]
    /\ nsize = [n \in DOMAIN parent |-> 0]
    /\ isdir = [n \in DOMAIN parent |-> FALSE]
    /\ kids = [n \in DOMAIN parent |-> <<>>]
    /\ built = [n \in DOMAIN parent |-> <<>>]
    /\ total_files = 0
    /\ total_size = 0
    /\ error_count = 0
    /\ elapsed = 0
    /\ holder = [m \in Locks |-> 0]
    /\ reg = [n \in DOMAIN parent |-> 0]
    /\ progress = [n \in DOMAIN parent |-> [files |-> 0, size |-> 0]]
    /\ events = {}

Init == InitOn(MaxNodes)

\* The trees of Init, and the larger trees of at most WideNodes nodes in which
\* some directory has more entries than ENTRY_CAP.
InitWide ==
    /\ InitOn(WideNodes)
    /\ \/ Len(parent) <= MaxNodes
       \/ \E n \in DOMAIN parent :
             Cardinality({m \in DOMAIN parent : parent[m] = n}) > ENTRY_CAP

(* ---- scan_directory_impl ---- *)

\* lines 49-51: the root path does not exist: Err, nothing else is done.
Reject ==
    /\ phase = "idle"
    /\ ~Exists(Root)
    /\ phase' = "returned"
    /\ outcome' = "err"
    /\ UNCHANGED <<fsvars, summary, pc, nodevars, counters, progvars, lockvars>>

\* lines 49-61: the root path exists: the counters and the timestamp are
\* created and scan_directory_parallel is called on the root.
Start ==
    /\ phase = "idle"
    /\ Exists(Root)
    /\ phase' = "scanning"
    /\ pc' = [pc EXCEPT ![Root] = "stat"]
    /\ total_files' = 0
    /\ total_size' = 0
    /\ error_count' = 0
    /\ elapsed' = 0
    /\ UNCHANGED <<fsvars, outcome, summary, nodevars, lockvars, progress, events>>

\* line 61, the `?`: the root invocation returned Err.
Propagate ==
    /\ phase = "scanning"
    /\ pc[Root] = "done"
    /\ ret[Root] = "err"
    /\ phase' = "returned"
    /\ outcome' = "err"
    /\ UNCHANGED <<fsvars, summary, pc, nodevars, counters, progvars, lockvars>>

\* lines 63-72: the root invocation returned a FileInfo: the three counters
\* are read and the ScanResult is returned.
Finish ==
    /\ phase = "scanning"
    /\ pc[Root] = "done"
    /\ ret[Root] = "ok"
    /\ LockFree("total_files") /\ LockFree("total_size") /\ LockFree("error_count")
    /\ phase' = "returned"
    /\ outcome' = "ok"
    /\ summary' = [total_size |-> total_size, file_count |-> total_files,
                   error_count |-> error_count]
    /\ UNCHANGED <<fsvars, pc, nodevars, counters, progvars, lockvars>>

(* ---- the environment ---- *)

\* The root path is removed by another process after exists() answered.
Vanish ==
    /\ phase = "scanning"
    /\ pc[Root] = "stat"
    /\ attr[Root].kind # "nostat"
    /\ attr' = [attr EXCEPT ![Root] = [kind |-> "nostat", size |-> 0]]
    /\ UNCHANGED <<parent, topvars, pc, nodevars, counters, progvars, lockvars>>

(* ---- scan_directory_parallel, one invocation per node ---- *)

\* The invocations a pool thread is executing: started and not returned. An
\* invocation waiting in par_iter does not occupy its thread (the thread runs
\* other invocations meanwhile), and the root invocation runs on the thread
\* of the caller.
Running == {m \in Nodes : m # Root /\ pc[m] \notin {"idle", "stat", "join", "done"}}

\* A pool thread is free to start the invocation on n.
CanStart(n) == n = Root \/ Cardinality(Running) < NumWorkers

\* lines 83-98: fs::metadata(path) and the branch on its answer.
Stat(n) ==
    /\ pc[n] = "stat"
    /\ CanStart(n)
    /\ pc' = [pc EXCEPT ![n] =
                IF ~StatOk(n) THEN "err_stat"
                ELSE IF IsFile(n) THEN "lock_files"
                ELSE "read_dir"]
    /\ UNCHANGED <<fsvars, topvars, nodevars, counters, progvars, lockvars>>

\* lines 86 and 133: error_count.lock()
LockErrorCount(n) ==
    /\ pc[n] \in {"err_stat", "err_list"}
    /\ LockFree("error_count")
    /\ holder' = Acquire(holder, "error_count", n)
    /\ reg' = [reg EXCEPT ![n] = error_count]
    /\ pc' = [pc EXCEPT ![n] = IF pc[n] = "err_stat" THEN "add_err_stat"
                               ELSE "add_err_list"]
    /\ UNCHANGED <<fsvars, topvars, nodevars, counters, progvars>>

\* lines 86-87: += 1, the guard is dropped, return Err.
ReturnStatErr(n) ==
    /\ pc[n] = "add_err_stat"
    /\ error_count' = RecordError(reg[n])
    /\ holder' = Release(holder, "error_count")
    /\ reg' = [reg EXCEPT ![n] = 0]
    /\ ret' = [ret EXCEPT ![n] = "err"]
    /\ pc' = [pc EXCEPT ![n] = "done"]
    /\ UNCHANGED <<fsvars, topvars, nsize, isdir, kids, built, total_files,
                   total_size, progvars>>

\* Mutant of ReturnEmptyDir: the listing failure is returned as an Err.
ReturnEmptyDir_Err(n) ==
    /\ pc[n] = "add_err_list"
    /\ error_count' = RecordError(reg[n])
    /\ holder' = Release(holder, "error_count")
    /\ reg' = [reg EXCEPT ![n] = 0]
    /\ ret' = [ret EXCEPT ![n] = "err"]
    /\ pc' = [pc EXCEPT ![n] = "done"]
    /\ UNCHANGED <<fsvars, topvars, nsize, isdir, kids, built, total_files,
                   total_size, progvars>>

\* lines 133-140: += 1, the guard is dropped, return the empty directory node.
ReturnEmptyDir(n) ==
    /\ pc[n] = "add_err_list"
    /\ error_count' = RecordError(reg[n])
    /\ holder' = Release(holder, "error_count")
    /\ reg' = [reg EXCEPT ![n] = 0]
    /\ ret' = [ret EXCEPT ![n] = "ok"]
    /\ nsize' = [nsize EXCEPT ![n] = 0]
    /\ isdir' = [isdir EXCEPT ![n] = TRUE]
    /\ kids' = [kids EXCEPT ![n] = <<>>]
    /\ pc' = [pc EXCEPT ![n] = "done"]
    /\ UNCHANGED <<fsvars, topvars, built, total_files, total_size, progvars>>

\* line 100: total_files.lock()
LockFiles(n) ==
    /\ pc[n] = "lock_files"
    /\ LockFree("total_files")
    /\ holder' = Acquire(holder, "total_files", n)
    /\ reg' = [reg EXCEPT ![n] = total_files]
    /\ pc' = [pc EXCEPT ![n] = "add_files"]
    /\ UNCHANGED <<fsvars, topvars, nodevars, counters, progvars>>

\* line 100: += 1 and the guard is dropped at the end of the statement.
AddFiles(n) ==
    /\ pc[n] = "add_files"
    /\ total_files' = RecordFile(reg[n])
    /\ holder' = Release(holder, "total_files")
    /\ reg' = [reg EXCEPT ![n] = 0]
    /\ pc' = [pc EXCEPT ![n] = "lock_size"]
    /\ UNCHANGED <<fsvars, topvars, nodevars, total_size, error_count, progvars>>

\* line 101: total_size.lock()
LockSize(n) ==
    /\ pc[n] = "lock_size"
    /\ LockFree("total_size")
    /\ holder' = Acquire(holder, "total_size", n)
    /\ reg' = [reg EXCEPT ![n] = total_size]
    /\ pc' = [pc EXCEPT ![n] = "add_size"]
    /\ UNCHANGED <<fsvars, topvars, nodevars, counters, progvars>>

\* Mutant of AddSize: the guard is kept beyond the statement.
AddSize_KeepGuard(n) ==
    /\ pc[n] = "add_size"
    /\ total_size' = RecordSize(reg[n], attr[n].size)
    /\ reg' = [reg EXCEPT ![n] = 0]
    /\ pc' = [pc EXCEPT ![n] = "lock_progress"]
    /\ UNCHANGED <<fsvars, topvars, nodevars, total_files, error_count, progvars,
                   holder>>

\* line 101: += size and the guard is dropped at the end of the statement.
AddSize(n) ==
    /\ pc[n] = "add_size"
    /\ total_size' = RecordSize(reg[n], attr[n].size)
    /\ holder' = Release(holder, "total_size")
    /\ reg' = [reg EXCEPT ![n] = 0]
    /\ pc' = [pc EXCEPT ![n] = "lock_progress"]
    /\ UNCHANGED <<fsvars, topvars, nodevars, total_files, error_count, progvars>>

\* lines 104-105: last_progress.lock() and the test of the elapsed time. The
\* clock is read here: any amount of time may have passed since it was last
\* read, and none runs backwards.
LockProgress(n) ==
    /\ pc[n] = "lock_progress"
    /\ LockFree("last_progress")
    /\ holder' = Acquire(holder, "last_progress", n)
    /\ \E e \in elapsed..(THRESHOLD + 1) :
          /\ elapsed' = e
          /\ pc' = [pc EXCEPT ![n] = IF ProgressDue(e) THEN "snap_files"
                                     ELSE "return_file"]
    /\ UNCHANGED <<fsvars, topvars, nodevars, counters, reg, progress, events>>

\* Mutant of SnapFiles: the guard is dropped as soon as the count is read.
SnapFiles_Unheld(n) ==
    /\ pc[n] = "snap_files"
    /\ LockFree("total_files")
    /\ progress' = [progress EXCEPT ![n].files = total_files]
    /\ pc' = [pc EXCEPT ![n] = "snap_size"]
    /\ UNCHANGED <<fsvars, topvars, nodevars, counters, lockvars, elapsed, events>>

\* line 108: files_processed: *total_files.lock().unwrap(); the guard is a
\* temporary of the let statement and lives to its end (line 111).
SnapFiles(n) ==
    /\ pc[n] = "snap_files"
    /\ LockFree("total_files")
    /\ holder' = Acquire(holder, "total_files", n)
    /\ progress' = [progress EXCEPT ![n].files = total_files]
    /\ pc' = [pc EXCEPT ![n] = "snap_size"]
    /\ UNCHANGED <<fsvars, topvars, nodevars, counters, reg, elapsed, events>>

\* lines 109-111: total_size_so_far: *total_size.lock().unwrap(); at the end
\* of the let statement both temporary guards are dropped.
SnapSize(n) ==
    /\ pc[n] = "snap_size"
    /\ LockFree("total_size")
    /\ holder' = Release(holder, "total_files")
    /\ progress' = [progress EXCEPT ![n].size = total_size]
    /\ pc' = [pc EXCEPT ![n] = "emit"]
    /\ UNCHANGED <<fsvars, topvars, nodevars, counters, reg, elapsed, events>>

\* line 112: app_handle.emit("scan-progress", &progress), result ignored.
Emit(n) ==
    /\ pc[n] = "emit"
    /\ events' = events \cup {progress[n]}
    /\ pc' = [pc EXCEPT ![n] = "stamp"]
    /\ UNCHANGED <<fsvars, topvars, nodevars, counters, elapsed, progress, lockvars>>

\* lines 113-122: *last_update = Instant::now() when an event was emitted;
\* the file node is returned and the last_progress guard is dropped.
ReturnFile(n) ==
    /\ pc[n] \in {"stamp", "return_file"}
    /\ elapsed' = IF pc[n] = "stamp" THEN 0 ELSE elapsed
    /\ holder' = Release(holder, "last_progress")
    /\ progress' = [progress EXCEPT ![n] = [files |-> 0, size |-> 0]]
    /\ ret' = [ret EXCEPT ![n] = "ok"]
    /\ nsize' = [nsize EXCEPT ![n] = attr[n].size]
    /\ isdir' = [isdir EXCEPT ![n] = FALSE]
    /\ kids' = [kids EXCEPT ![n] = <<>>]
    /\ pc' = [pc EXCEPT ![n] = "done"]
    /\ UNCHANGED <<fsvars, topvars, built, counters, reg, events>>

\* lines 126-131 and 145-148: fs::read_dir(path); when it answers, the first
\* entries are collected and one invocation per entry is handed to the pool.
ReadDir(n) ==
    /\ pc[n] = "read_dir"
    /\ IF ListOk(n)
       THEN pc' = [m \in DOMAIN pc |->
                     IF m = n THEN "join"
                     ELSE IF \E i \in 1..Len(TakeEntries(Entries(n))) :
                               TakeEntries(Entries(n))[i] = m
                          THEN "stat"
                          ELSE pc[m]]
       ELSE pc' = [pc EXCEPT ![n] = "err_list"]
    /\ UNCHANGED <<fsvars, topvars, nodevars, counters, progvars, lockvars>>

\* Mutant of Join: the directory does not wait for its child invocations.
Join_Early(n) ==
    /\ pc[n] = "join"
    /\ LET children == Collect(TakeEntries(Entries(n)))
       IN /\ built' = [built EXCEPT ![n] = children]
          /\ nsize' = [nsize EXCEPT ![n] = SumSizes(children)]
          /\ kids' = [kids EXCEPT ![n] = Truncate(SortBySize(children))]
    /\ isdir' = [isdir EXCEPT ![n] = TRUE]
    /\ ret' = [ret EXCEPT ![n] = JoinResult(TakeEntries(Entries(n)))]
    /\ pc' = [pc EXCEPT ![n] = "done"]
    /\ UNCHANGED <<fsvars, topvars, counters, progvars, lockvars>>

\* lines 145-166: every child invocation has returned; the Ok ones are
\* collected in entry order, summed, sorted, truncated, and the directory
\* node is returned.
Join(n) ==
    /\ pc[n] = "join"
    /\ \A i \in 1..Len(TakeEntries(Entries(n))) :
          pc[TakeEntries(Entries(n))[i]] = "done"
    /\ LET children == Collect(TakeEntries(Entries(n)))
       IN /\ built' = [built EXCEPT ![n] = children]
          /\ nsize' = [nsize EXCEPT ![n] = SumSizes(children)]
          /\ kids' = [kids EXCEPT ![n] = Truncate(SortBySize(children))]
    /\ isdir' = [isdir EXCEPT ![n] = TRUE]
    /\ ret' = [ret EXCEPT ![n] = JoinResult(TakeEntries(Entries(n)))]
    /\ pc' = [pc EXCEPT ![n] = "done"]
    /\ UNCHANGED <<fsvars, topvars, counters, progvars, lockvars>>

\* One step of the program: of scan_directory_impl or of some invocation.
Program ==
    \/ Reject
    \/ Start
    \/ Propagate
    \/ Finish
    \/ \E n \in Nodes : Stat(n)
    \/ \E n \in Nodes : LockErrorCount(n)
    \/ \E n \in Nodes : ReturnStatErr(n)
    \/ \E n \in Nodes : ReturnEmptyDir(n)
    \/ \E n \in Nodes : LockFiles(n)
    \/ \E n \in Nodes : AddFiles(n)
    \/ \E n \in Nodes : LockSize(n)
    \/ \E n \in Nodes : AddSize(n)
    \/ \E n \in Nodes : LockProgress(n)
    \/ \E n \in Nodes : SnapFiles(n)
    \/ \E n \in Nodes : SnapSize(n)
    \/ \E n \in Nodes : Emit(n)
    \/ \E n \in Nodes : ReturnFile(n)
    \/ \E n \in Nodes : ReadDir(n)
    \/ \E n \in Nodes : Join(n)

Next ==
    \/ Reject
    \/ Start
    \/ Propagate
    \/ Finish
    \/ \E n \in Nodes : Stat(n)
    \/ \E n \in Nodes : LockErrorCount(n)
    \/ \E n \in Nodes : ReturnStatErr(n)
    \/ \E n \in Nodes : ReturnEmptyDir(n)
    \/ \E n \in Nodes : LockFiles(n)
    \/ \E n \in Nodes : AddFiles(n)
    \/ \E n \in Nodes : LockSize(n)
    \/ \E n \in Nodes : AddSize(n)
    \/ \E n \in Nodes : LockProgress(n)
    \/ \E n \in Nodes : SnapFiles(n)
    \/ \E n \in Nodes : SnapSize(n)
    \/ \E n \in Nodes : Emit(n)
    \/ \E n \in Nodes : ReturnFile(n)
    \/ \E n \in Nodes : ReadDir(n)
    \/ \E n \in Nodes : Join(n)
    \/ Vanish

Spec == Init /\ [][Next]_vars

WideSpec == InitWide /\ [][Next]_vars

\* The pool keeps running some runnable invocation.
FairSpec == Spec /\ WF_vars(Program)

(* ---- a directory that is reachable from itself ---- *)

\* A symbolic link to the directory that holds it (ln -s . l), the only entry
\* of that directory. fs::metadata and fs::read_dir follow links, so the
\* paths d/l, d/l/l, ... all stat as a directory and all list the one entry l.
LinkAttr == [kind |-> "link", size |-> 0]

IsLink(n) == attr[n].kind = "link"

\* The state before scan_directory is called on a tree that may hold such
\* links.
InitLoop ==
    /\ parent \in UNION {Trees(n) : n \in 1..LoopNodes}
    /\ attr \in [DOMAIN parent -> Attrs \cup {LinkAttr}]
    /\ \A n \in DOMAIN parent :
          /\ HasEntries(parent, n) => attr[n].kind = "dir"
          /\ attr[n].kind = "link" =>
                /\ n # Root
                /\ \A m \in DOMAIN parent : parent[m] = parent[n] => m = n
    /\ phase = "idle"
    /\ outcome = "none"
    /\ summary = [total_size |-> 0, file_count |-> 0, error_count |-> 0]
    /\ pc = [n \in DOMAIN parent |-> "idle"]
    /\ ret = [n \in DOMAIN parent |-> "none"]
    /\ nsize = [n \in DOMAIN parent |-> 0]
    /\ isdir = [n \in DOMAIN parent |-> FALSE]
    /\ kids = [n \in DOMAIN parent |-> <<>>]
    /\ built = [n \in DOMAIN parent |-> <<>>]
    /\ total_files = 0
    /\ total_size = 0
    /\ error_count = 0
    /\ elapsed = 0
    /\ holder = [m \in Locks |-> 0]
    /\ reg = [n \in DOMAIN parent |-> 0]
    /\ progress = [n \in DOMAIN parent |-> [files |-> 0, size |-> 0]]
    /\ events = {}

\* ReadDir on a path that is not such a link.
ListDir(n) == ~IsLink(n) /\ ReadDir(n)

\* lines 126-131 and 145-150 on the path of a link: read_dir answers the one
\* entry, the link again, one level deeper; the invocation waits in par_iter
\* for the invocation on that entry, which starts at its stat. Every level
\* gets the same answers, so node n stands for the deepest invocation and the
\* ones above it all wait.
FollowLink(n) ==
    /\ pc[n] = "read_dir"
    /\ IsLink(n)
    /\ pc' = [pc EXCEPT ![n] = "stat"]
    /\ UNCHANGED <<fsvars, topvars, nodevars, counters, progvars, lockvars>>

ProgramLoop ==
    \/ Reject
    \/ Start
    \/ Propagate
    \/ Finish
    \/ \E n \in Nodes : Stat(n)
    \/ \E n \in Nodes : LockErrorCount(n)
    \/ \E n \in Nodes : ReturnStatErr(n)
    \/ \E n \in Nodes : ReturnEmptyDir(n)
    \/ \E n \in Nodes : LockFiles(n)
    \/ \E n \in Nodes : AddFiles(n)
    \/ \E n \in Nodes : LockSize(n)
    \/ \E n \in Nodes : AddSize(n)
    \/ \E n \in Nodes : LockProgress(n)
    \/ \E n \in Nodes : SnapFiles(n)
    \/ \E n \in Nodes : SnapSize(n)
    \/ \E n \in Nodes : Emit(n)
    \/ \E n \in Nodes : ReturnFile(n)
    \/ \E n \in Nodes : ListDir(n)
    \/ \E n \in Nodes : FollowLink(n)
    \/ \E n \in Nodes : Join(n)

NextLoop ==
    \/ Reject
    \/ Start
    \/ Propagate
    \/ Finish
    \/ \E n \in Nodes : Stat(n)
    \/ \E n \in Nodes : LockErrorCount(n)
    \/ \E n \in Nodes : ReturnStatErr(n)
    \/ \E n \in Nodes : ReturnEmptyDir(n)
    \/ \E n \in Nodes : LockFiles(n)
    \/ \E n \in Nodes : AddFiles(n)
    \/ \E n \in Nodes : LockSize(n)
    \/ \E n \in Nodes : AddSize(n)
    \/ \E n \in Nodes : LockProgress(n)
    \/ \E n \in Nodes : SnapFiles(n)
    \/ \E n \in Nodes : SnapSize(n)
    \/ \E n \in Nodes : Emit(n)
    \/ \E n \in Nodes : ReturnFile(n)
    \/ \E n \in Nodes : ListDir(n)
    \/ \E n \in Nodes : FollowLink(n)
    \/ \E n \in Nodes : Join(n)
    \/ Vanish

LoopSpec == InitLoop /\ [][NextLoop]_vars

FairLoopSpec == LoopSpec /\ WF_vars(ProgramLoop)

(***************************************************************************)
(* What the filesystem alone determines, stated over sets of nodes and     *)
(* independently of the operators the invocations use.                     *)
(***************************************************************************)

\* The position of n among the entries of its directory.
Rank(n) == Cardinality({m \in Nodes : parent[m] = parent[n] /\ m <= n})

RECURSIVE UnderCap(_, _)
\* m lies in the subtree of n, and on the way down from n to m every entry
\* is among the first ENTRY_CAP of its directory.
UnderCap(m, n) ==
    \/ m = n
    \/ /\ m > n
       /\ Rank(m) <= ENTRY_CAP
       /\ UnderCap(parent[m], n)

\* The files of the subtree of n that lie under the per-directory cap.
FilesUnder(n) == {m \in Nodes : UnderCap(m, n) /\ attr[m].kind = "file"}

\* The entries of the subtree of n, under the cap, whose stat or listing fails.
FailuresUnder(n) ==
    {m \in Nodes : UnderCap(m, n) /\ attr[m].kind \in {"nostat", "nolist"}}

\* All the files of the tree.
AllFiles == {m \in Nodes : attr[m].kind = "file"}

RECURSIVE FileBytes(_)
\* The sum of the lengths of a set of files.
FileBytes(S) ==
    IF S = {} THEN 0
    ELSE LET x == CHOOSE y \in S : TRUE
         IN attr[x].size + FileBytes(S \ {x})

RECURSIVE NodeBytes(_)
\* The sum of the sizes of a set of returned nodes.
NodeBytes(S) ==
    IF S = {} THEN 0
    ELSE LET x == CHOOSE y \in S : TRUE
         IN nsize[x] + NodeBytes(S \ {x})

\* The elements of a sequence of nodes.
Range(cs) == {cs[i] : i \in 1..Len(cs)}

\* The entries of n whose invocation returned a FileInfo.
OkChildren(n) == {m \in Nodes : parent[m] = n /\ ret[m] = "ok"}

\* No directory has more entries than the per-directory cap.
NoCapExceeded ==
    \A n \in Nodes : Cardinality({m \in Nodes : parent[m] = n}) <= ENTRY_CAP

ReturnedOk == phase = "returned" /\ outcome = "ok"

\* The invocation on n returned a directory node.
DirNode(n) == ret[n] = "ok" /\ isdir[n]

(***************************************************************************)
(* The claims.                                                             *)
(***************************************************************************)

\* C1 (as stated): the returned total_size is the sum of the sizes of all
\* files in the tree and file_count is the number of all files in the tree.
C1_AllFilesCounted ==
    ReturnedOk =>
        /\ summary.file_count = Cardinality(AllFiles)
        /\ summary.total_size = FileBytes(AllFiles)

\* C1 (amended): when no directory has more entries than the per-directory
\* cap, the returned total_size is the sum of the sizes of all files in the
\* tree and file_count is the number of all files in the tree.
C1_ExactTotalsUnderCap ==
    (ReturnedOk /\ NoCapExceeded) =>
        /\ summary.file_count = Cardinality(AllFiles)
        /\ summary.total_size = FileBytes(AllFiles)

\* C1 witness: a scan of a tree within the cap, with a subdirectory and at
\* least two files of non-zero total size, has returned.
C1_Witness ==
    /\ ReturnedOk
    /\ NoCapExceeded
    /\ Cardinality(AllFiles) >= 2
    /\ summary.total_size >= 2
    /\ \E n \in Nodes : n # Root /\ DirNode(n) /\ nsize[n] > 0

\* The file invocations that have completed line 100 / line 101, and the
\* invocations that have completed line 86 or line 133.
FilesRecorded ==
    {n \in Nodes : pc[n] \in {"lock_size", "add_size", "lock_progress",
                             "snap_files", "snap_size", "emit", "stamp",
                             "return_file"}
                   \/ (pc[n] = "done" /\ ret[n] = "ok" /\ ~isdir[n])}
SizesRecorded ==
    {n \in Nodes : pc[n] \in {"lock_progress", "snap_files", "snap_size",
                             "emit", "stamp", "return_file"}
                   \/ (pc[n] = "done" /\ ret[n] = "ok" /\ ~isdir[n])}
ErrorsRecorded ==
    {n \in Nodes : pc[n] = "done"
                   /\ (ret[n] = "err" \/ (isdir[n] /\ attr[n].kind = "nolist"))}

\* C2: under every interleaving, at every moment the shared file count is
\* the number of file visits that have recorded themselves, the byte total
\* is the sum of their sizes and the error total is the number of failed
\* stats and listings; the returned ScanResult holds these for all the
\* entries visited.
C2_CountersExact ==
    /\ phase = "scanning" =>
          /\ total_files = Cardinality(FilesRecorded)
          /\ total_size = FileBytes(SizesRecorded)
          /\ error_count = Cardinality(ErrorsRecorded)
    /\ ReturnedOk =>
          /\ summary.file_count =
                Cardinality({n \in Nodes : pc[n] = "done" /\ attr[n].kind = "file"})
          /\ summary.total_size =
                FileBytes({n \in Nodes : pc[n] = "done" /\ attr[n].kind = "file"})
          /\ summary.error_count =
                Cardinality({n \in Nodes : pc[n] = "done"
                               /\ attr[n].kind \in {"nostat", "nolist"}})

\* C2 witness: two file invocations are between their two updates at the
\* same time, one of them holding the byte-total mutex, and an error has
\* been counted.
C2_Witness ==
    /\ \E a, b \in Nodes :
          /\ a # b
          /\ pc[a] = "add_size"
          /\ pc[b] = "lock_size"
    /\ error_count >= 1

C4_ChildrenSortedTopK ==
    \A n \in Nodes :
        /\ DirNode(n) =>
              /\ \A i, j \in 1..Len(kids[n]) :
                    i < j => /\ nsize[kids[n][i]] >= nsize[kids[n][j]]
                             /\ kids[n][i] # kids[n][j]
              /\ Len(kids[n]) <= RETAINED_MAX
              /\ Range(kids[n]) \subseteq OkChildren(n)
              /\ Len(kids[n]) = Min(Cardinality(OkChildren(n)), RETAINED_MAX)
              /\ \A d \in OkChildren(n) \ Range(kids[n]) :
                    \A k \in Range(kids[n]) : nsize[d] <= nsize[k]
        /\ (ret[n] = "ok" /\ ~isdir[n]) => kids[n] = <<>>

\* C4 witness: a directory node was returned whose built children came in
\* increasing size, more of them than it retains.
C4_Witness ==
    \E n \in Nodes :
        /\ DirNode(n)
        /\ Cardinality(OkChildren(n)) > RETAINED_MAX
        /\ \E a, b \in OkChildren(n) : a < b /\ nsize[a] < nsize[b]
        /\ \E m \in Nodes : ret[m] = "ok" /\ ~isdir[m]


\* C5: when the root path does not exist, the call returns an error in one
\* step in which no invocation is started, no counter is updated and no
\* event is emitted, and nothing happens after it has returned.
C5_RejectNoWork ==
    [][/\ (phase = "idle" /\ attr[Root].kind = "nostat") =>
             /\ phase' = "returned"
             /\ outcome' = "err"
             /\ events' = {}
             /\ \A n \in Nodes : pc'[n] = "idle" /\ ret'[n] = "none"
             /\ total_files' = 0 /\ total_size' = 0 /\ error_count' = 0
             /\ \A m \in Locks : holder'[m] = 0
       /\ (phase = "returned" /\ pc[Root] = "idle") => UNCHANGED vars]_vars

\* C5 witness: the call on a missing root has returned its error.
C5_Witness ==
    /\ phase = "returned"
    /\ outcome = "err"
    /\ pc[Root] = "idle"
    /\ attr[Root].kind = "nostat"

\* C6: the call returns an error only when the root path does not exist or
\* cannot be stat'ed; a directory whose entry failed still returns a node,
\* and a call whose root can be stat'ed returns a ScanResult.
C6_ErrorOnlyForRoot ==
    /\ outcome = "err" => attr[Root].kind = "nostat"
    /\ (phase = "returned" /\ attr[Root].kind # "nostat") => outcome = "ok"
    /\ \A n \in Nodes :
          (n # Root /\ pc[n] = "done" /\ pc[parent[n]] = "done")
             => ret[parent[n]] = "ok"

\* C6 witness: a ScanResult was returned by a scan in which the stat of one
\* entry and the listing of another failed.
C6_Witness ==
    /\ ReturnedOk
    /\ \E n, m \in Nodes :
          /\ n # Root /\ attr[n].kind = "nostat" /\ pc[n] = "done"
          /\ m # Root /\ attr[m].kind = "nolist" /\ pc[m] = "done"

\* The size the filesystem gives the subtree of n: the lengths of its files
\* under the per-directory cap.
SubtreeBytes(n) == FileBytes(FilesUnder(n))

\* The entries of n that the invocation on n visits.
Visited(n) == {m \in Nodes : parent[m] = n /\ Rank(m) <= ENTRY_CAP}

\* What C7 says of a subdirectory n whose listing has failed, apart from its
\* place in the parent's children list.
C7_Isolated(n) ==
    /\ ret[n] = "ok" /\ isdir[n] /\ nsize[n] = 0 /\ kids[n] = <<>>
    /\ phase = "scanning" => error_count >= 1
    /\ ReturnedOk => summary.error_count >= 1
    /\ pc[parent[n]] = "done" =>
          \A s \in Visited(parent[n]) :
             /\ pc[s] = "done"
             /\ ret[s] = "ok" => nsize[s] = SubtreeBytes(s)

\* C7 (as stated): a subdirectory whose listing fails yields a size-0 node
\* without children that is in its parent's children list, counts at least
\* one error, and every sibling is scanned and gets the size of its subtree.
C7_EmptyNodeKept ==
    \A n \in Nodes :
        (n # Root /\ attr[n].kind = "nolist" /\ pc[n] = "done") =>
            /\ C7_Isolated(n)
            /\ pc[parent[n]] = "done" => n \in Range(kids[parent[n]])

\* C7 (amended): as stated, except that the node is among the children built
\* for its parent and is in the parent's children list whenever the parent
\* built no more than RETAINED_MAX children; only the truncation drops it.
C7_EmptyNodeBuilt ==
    \A n \in Nodes :
        (n # Root /\ attr[n].kind = "nolist" /\ pc[n] = "done") =>
            /\ C7_Isolated(n)
            /\ pc[parent[n]] = "done" =>
                  /\ n \in Range(built[parent[n]])
                  /\ Len(built[parent[n]]) <= RETAINED_MAX
                        => n \in Range(kids[parent[n]])

\* C7 witness: a directory returned with a subdirectory whose listing failed
\* in its children list, next to a sibling of non-zero size.
C7_Witness ==
    \E n \in Nodes :
        /\ n # Root /\ attr[n].kind = "nolist"
        /\ pc[parent[n]] = "done"
        /\ n \in Range(kids[parent[n]])
        /\ \E s \in Range(kids[parent[n]]) : nsize[s] > 0

\* C8: a non-root entry that cannot be stat'ed returns Err and counts one
\* error; its parent returns a node that has it neither among its children
\* nor in its size, and that is built from all the other entries visited;
\* it is counted neither as a file nor in the byte total.
C8_StatFailureSkipped ==
    \A n \in Nodes :
        (n # Root /\ attr[n].kind = "nostat" /\ pc[n] = "done") =>
            /\ ret[n] = "err"
            /\ n \notin FilesRecorded /\ n \notin SizesRecorded
            /\ phase = "scanning" => error_count >= 1
            /\ ReturnedOk =>
                  /\ summary.error_count = Cardinality(FailuresUnder(Root))
                  /\ summary.file_count = Cardinality(FilesUnder(Root))
            /\ pc[parent[n]] = "done" =>
                  /\ ret[parent[n]] = "ok"
                  /\ n \notin Range(built[parent[n]])
                  /\ n \notin Range(kids[parent[n]])
                  /\ nsize[parent[n]] = SubtreeBytes(parent[n])
                  /\ \A s \in Visited(parent[n]) \ {n} :
                        /\ pc[s] = "done"
                        /\ ret[s] = "ok" => s \in Range(built[parent[n]])

\* C8 witness: a directory returned with a child of non-zero size although
\* the stat of another of its entries failed.
C8_Witness ==
    \E n \in Nodes :
        /\ n # Root /\ attr[n].kind = "nostat" /\ pc[n] = "done"
        /\ pc[parent[n]] = "done"
        /\ nsize[parent[n]] > 0
        /\ Len(kids[parent[n]]) >= 2

\* C9: the entries of a directory beyond the first ENTRY_CAP, and what lies
\* below them, are never visited; the first ENTRY_CAP are all visited before
\* the directory returns; the returned file_count, total_size and
\* error_count are those of the visited entries alone.
C9_CapDropsSilently ==
    /\ \A n \in Nodes :
          /\ ~UnderCap(n, Root) =>
                /\ pc[n] = "idle" /\ ret[n] = "none"
                /\ \A d \in Nodes : n \notin Range(built[d])
          /\ (DirNode(n) /\ attr[n].kind = "dir") =>
                \A m \in Visited(n) : pc[m] = "done"
    /\ ReturnedOk =>
          /\ summary.file_count = Cardinality(FilesUnder(Root))
          /\ summary.total_size = SubtreeBytes(Root)
          /\ summary.error_count = Cardinality(FailuresUnder(Root))

\* C9 witness: a scan has returned whose root has more entries than
\* ENTRY_CAP, the last of them a file of non-zero length.
C9_Witness ==
    /\ ReturnedOk
    /\ \E n \in Nodes :
          /\ parent[n] = Root
          /\ Rank(n) > ENTRY_CAP
          /\ attr[n].kind = "file" /\ attr[n].size > 0
    /\ summary.file_count = ENTRY_CAP

\* C10: under fair scheduling every call returns, with exactly one outcome
\* that it never changes afterwards.
C10_ReturnsOnce ==
    /\ <>(phase = "returned")
    /\ [](phase = "returned" <=> outcome \in {"ok", "err"})
    /\ [][phase = "returned" => UNCHANGED <<phase, outcome, summary>>]_vars

\* C10 witness: a scan that recorded two files and emitted an event has
\* returned its ScanResult.
C10_Witness ==
    /\ ReturnedOk
    /\ summary.file_count >= 2
    /\ events # {}

\* The entries of n that yield a node: the visited ones whose stat succeeds.
ExpectedChildren(n) == {m \in Visited(n) : attr[m].kind # "nostat"}

\* c comes before m in the children list the filesystem determines: larger
\* subtrees first, equal ones in the order of the entries.
Ahead(c, m) ==
    \/ SubtreeBytes(c) > SubtreeBytes(m)
    \/ SubtreeBytes(c) = SubtreeBytes(m) /\ c < m

\* The place of m in the children list of its directory.
Position(m) ==
    Cardinality({c \in ExpectedChildren(parent[m]) : Ahead(c, m)}) + 1

\* C11: the result is a function of the tree alone: under every schedule
\* each returned node has the size of its subtree and the children list the
\* tree determines (position by position, ties in entry order), and the
\* returned total_size and file_count are those of the tree; so two scans of
\* the same unchanged tree return the same result.
C11_ResultDetermined ==
    /\ \A n \in Nodes :
          (pc[n] = "done" /\ ret[n] = "ok") =>
              /\ nsize[n] = SubtreeBytes(n)
              /\ isdir[n] = (attr[n].kind # "file")
              /\ Len(kids[n]) = Min(Cardinality(ExpectedChildren(n)), RETAINED_MAX)
              /\ \A i \in 1..Len(kids[n]) :
                    /\ kids[n][i] \in ExpectedChildren(n)
                    /\ Position(kids[n][i]) = i
    /\ ReturnedOk =>
          /\ summary.total_size = SubtreeBytes(Root)
          /\ summary.file_count = Cardinality(FilesUnder(Root))

\* C11 witness: a scan has returned whose root built more children than it
\* retains, the two retained ones tied in size, after a progress event whose
\* content depends on the schedule was emitted.
C11_Witness ==
    /\ ReturnedOk
    /\ Cardinality(OkChildren(Root)) > RETAINED_MAX
    /\ Len(kids[Root]) = 2
    /\ nsize[kids[Root][1]] = nsize[kids[Root][2]]
    /\ nsize[kids[Root][1]] > 0
    /\ \E ev \in events : ev.files < summary.file_count

\* C12: once the shared file count has exceeded the global file-count
\* ceiling no further file is recorded, so the count never passes the
\* ceiling by more than the one file that exceeded it; the call then returns
\* a ScanResult, not an error.
C12_StopsAtCeiling ==
    /\ total_files <= FileCeiling + 1
    /\ (phase = "returned" /\ total_files > FileCeiling) => outcome = "ok"

Wants(m) ==
    IF pc[m] = "lock_files" \/ pc[m] = "snap_files" THEN {"total_files"}
    ELSE IF pc[m] = "lock_size" \/ pc[m] = "snap_size" THEN {"total_size"}
    ELSE IF pc[m] = "lock_progress" THEN {"last_progress"}
    ELSE IF pc[m] = "err_stat" \/ pc[m] = "err_list" THEN {"error_count"}
    ELSE {}

\* C14: while the delivery of an event by one invocation is outstanding, no
\* other invocation waits for it: whatever mutex another invocation needs
\* next, to record its file or to return its node, is not held by the
\* delivering one.
C14_DeliveryNeverStalls ==
    \A n, m \in Nodes :
        (pc[n] = "emit" /\ m # n) =>
            \A l \in Wants(m) : holder[l] # n

\* C15: an event is emitted only by the invocation that holds last_progress
\* and has read more than THRESHOLD since the timestamp was last set (at the
\* start of the scan or by the previous emission); it holds the mutex from
\* that reading until it has reset the timestamp, so the reading stands when
\* the event goes out, the reset follows in the same critical section, and
\* two consecutive emissions are more than THRESHOLD apart.
C15_EmissionsSpaced ==
    /\ [](\A n \in Nodes :
            /\ pc[n] \in {"snap_files", "snap_size", "emit"} =>
                  /\ holder["last_progress"] = n
                  /\ elapsed > THRESHOLD
            /\ pc[n] = "stamp" => holder["last_progress"] = n)
    /\ [][\A n \in Nodes :
            /\ events' # events => (\E m \in Nodes : pc[m] = "emit" /\ pc'[m] = "stamp")
            /\ (pc[n] = "emit" /\ pc'[n] # "emit") =>
                  /\ pc'[n] = "stamp"
                  /\ elapsed > THRESHOLD /\ elapsed' = elapsed
                  /\ holder'["last_progress"] = n
            /\ (pc[n] = "stamp" /\ pc'[n] # "stamp") =>
                  /\ elapsed' = 0
                  /\ holder'["last_progress"] = 0
            /\ (phase = "scanning" /\ elapsed' < elapsed) =>
                  (\E m \in Nodes : pc[m] = "stamp" /\ pc'[m] = "done")]_vars

\* C15 witness: an invocation is about to emit after an earlier emission of
\* the same scan, while another file invocation waits for last_progress.
C15_Witness ==
    /\ events # {}
    /\ \E n, m \in Nodes :
          /\ pc[n] = "emit"
          /\ pc[m] = "lock_progress"

\* C16 (as stated): the byte total of every emitted event is the sum of the
\* sizes of exactly as many files as its file count says.
C16_EventSumsCountedFiles ==
    \A ev \in events :
        \E S \in SUBSET AllFiles :
            /\ Cardinality(S) = ev.files
            /\ FileBytes(S) = ev.size

\* C16 (amended): the pair of an emitted event is the pair the two counters
\* hold at one instant, the one at which the byte total is read with both
\* mutexes held; its byte total is the sum of the sizes of the files whose
\* size had been added by then, all of them among the files counted, and
\* its file count also counts the files, fewer than there are workers, that
\* had been counted but whose size had not yet been added.
C16_SnapshotOfCounters ==
    /\ [](\A n \in Nodes :
            pc[n] = "snap_size" =>
                /\ holder["total_files"] = n
                /\ progress[n].files = total_files)
    /\ [][\A n \in Nodes :
            /\ (pc[n] = "snap_size" /\ pc'[n] = "emit") =>
                  /\ holder["total_size"] = 0
                  /\ progress'[n] = [files |-> total_files, size |-> total_size]
                  /\ total_files = Cardinality(FilesRecorded)
                  /\ total_size = FileBytes(SizesRecorded)
                  /\ SizesRecorded \subseteq FilesRecorded
                  /\ Cardinality(FilesRecorded \ SizesRecorded) <= NumWorkers - 1
            /\ pc[n] = "emit" =>
                  /\ progress'[n] = progress[n] \/ pc'[n] = "done"
                  /\ pc'[n] = "stamp" => events' = events \cup {progress[n]}
            /\ (\A m \in Nodes : ~(pc[m] = "emit" /\ pc'[m] = "stamp")) =>
                  events' = events]_vars

\* C16 witness: an event was emitted that counts two files and sums one, in
\* a tree whose files all have length 1.
C16_Witness ==
    /\ \A f \in AllFiles : attr[f].size = 1
    /\ \E ev \in events : ev.files = 2 /\ ev.size = 1

\* C17: a directory invocation has computed nothing of its node while it
\* waits for its child invocations, and once it has returned none of its
\* entries is being scanned: each visited entry has returned and the others
\* were never started; the size, the children and the return value are set
\* in the one step taken when every child invocation has returned.
C17_JoinAfterChildren ==
    /\ [](\A n \in Nodes :
            /\ pc[n] \in {"read_dir", "join"} =>
                  /\ ret[n] = "none" /\ built[n] = <<>> /\ kids[n] = <<>>
                  /\ nsize[n] = 0
            /\ pc[n] = "done" =>
                  \A m \in Nodes :
                      parent[m] = n =>
                          /\ pc[m] \in {"idle", "done"}
                          /\ (m \in Visited(n) /\ DirNode(n) /\ attr[n].kind = "dir")
                                => pc[m] = "done")
    /\ [][\A n \in Nodes :
            (pc[n] = "join" /\ pc'[n] # "join") =>
                /\ pc'[n] = "done"
                /\ \A m \in Visited(n) : pc[m] = "done"]_vars

\* C17 witness: the root directory has returned after a subdirectory with a
\* file of non-zero length and another entry, a file, had returned.
C17_Witness ==
    /\ DirNode(Root) /\ pc[Root] = "done"
    /\ \E d, g \in Nodes :
          /\ d # g /\ parent[d] = Root /\ parent[g] = Root
          /\ DirNode(d) /\ nsize[d] > 0
          /\ ret[g] = "ok" /\ ~isdir[g]

\* The mutexes the invocation on n holds.
Holding(n) == {l \in Locks : holder[l] = n}

\* C18 (first part): an invocation that holds a mutex is neither at a stat
\* nor at a directory listing nor waiting for its child invocations.
C18_NoIoUnderLock ==
    \A n \in Nodes :
        Holding(n) # {} => pc[n] \notin {"idle", "stat", "read_dir", "join", "done"}

\* C18: an invocation that holds a mutex is at a counter or timestamp step:
\* an addition to a counter, a read of a counter for the snapshot, the test
\* or the reset of the timestamp; never at a stat, a listing, a wait for its
\* child invocations or anything else.
C18_OnlyCounterSteps ==
    \A n \in Nodes :
        Holding(n) # {} =>
            pc[n] \in {"add_err_stat", "add_err_list", "add_files", "add_size",
                       "snap_files", "snap_size", "stamp", "return_file"}

\* The invocation on n waits for a mutex that the invocation on m holds.
WaitsFor(n, m) == \E l \in Wants(n) : holder[l] = m

\* Some invocations wait for one another in a cycle (an invocation that
\* waits for a mutex it holds itself is a cycle of one).
WaitCycle ==
    \E C \in SUBSET Nodes :
        /\ C # {}
        /\ \A n \in C : \E m \in C : WaitsFor(n, m)

\* The order in which the mutexes are requested.
LockRank(l) ==
    IF l = "last_progress" THEN 1
    ELSE IF l = "total_files" THEN 2
    ELSE IF l = "total_size" THEN 3
    ELSE 4

\* C19 (as stated): an invocation that requests a mutex holds at most the
\* last_progress mutex, and then requests total_files or total_size; no
\* invocations wait for one another in a cycle.
C19_RequestsOnlyUnderLastProgress ==
    /\ \A n \in Nodes :
          Wants(n) # {} =>
              /\ Holding(n) \subseteq {"last_progress"}
              /\ Holding(n) # {} => Wants(n) \subseteq {"total_files", "total_size"}
    /\ ~WaitCycle

\* C19 (amended): an invocation that requests a mutex holds neither
\* total_size nor error_count; it holds total_files only when it also holds
\* last_progress and requests total_size (the snapshot reads the byte total
\* with the file-count guard still alive); every mutex it holds comes before
\* the one it requests in the order last_progress, total_files, total_size;
\* so no invocations wait for one another in a cycle.
C19_LockOrderAcyclic ==
    /\ \A n \in Nodes :
          Wants(n) # {} =>
              /\ Holding(n) \cap {"total_size", "error_count"} = {}
              /\ "total_files" \in Holding(n) =>
                    /\ "last_progress" \in Holding(n)
                    /\ Wants(n) = {"total_size"}
              /\ \A h \in Holding(n) : \A w \in Wants(n) : LockRank(h) < LockRank(w)
              /\ "error_count" \in Wants(n) => Holding(n) = {}
    /\ ~WaitCycle

\* C19 witness: an invocation holding last_progress and total_files waits
\* for total_size, which another invocation holds.
C19_Witness ==
    \E n, m \in Nodes :
        /\ pc[n] = "snap_size" /\ Holding(n) = {"last_progress", "total_files"}
        /\ pc[m] = "add_size" /\ WaitsFor(n, m)

\* The files below n (n itself if it is a file) whose size has been added to
\* the byte total.
CountedUnder(n) ==
    {f \in SizesRecorded : f >= n /\ UnderCap(f, n)}

\* C20: in every returned ScanResult the size of the root node equals
\* total_size, and the size of every returned node is the sum of the sizes of
\* the files counted below it: a file counted in the byte total is counted
\* in the size of each of its ancestors, whatever was truncated and whatever
\* failed.
C20_RootSizeIsTotal ==
    ReturnedOk =>
        /\ nsize[Root] = summary.total_size
        /\ \A n \in Nodes :
              (pc[n] = "done" /\ ret[n] = "ok") =>
                  nsize[n] = FileBytes(CountedUnder(n))
        /\ \A f \in SizesRecorded : f \in CountedUnder(Root)

\* C20 witness: a ScanResult with a non-zero byte total was returned whose
\* root dropped a child of non-zero size by truncation.
C20_Witness ==
    /\ ReturnedOk
    /\ isdir[Root]
    /\ NodeBytes(Range(kids[Root])) > 0
    /\ summary.total_size > NodeBytes(Range(kids[Root]))

=============================================================================
